---- MODULE Spec2Model ----
(***************************************************************************)
(* A model of src/src/ngrams/n_gram_model.rs: the tokenizer, the training  *)
(* walk that builds the unigram, bigram and trigram count tables, the      *)
(* Laplace smoother and the three suggesters.                              *)
(*                                                                         *)
(* A Rust String is a sequence of characters; a character is one of the    *)
(* names in Chars.  "I_DOT" is U+0130 (capital I with dot above) and       *)
(* "DOT_ABOVE" is U+0307 (combining dot above): U+0130 is alphabetic and   *)
(* its lowercase form is the two characters U+0069 U+0307, the second of   *)
(* which is a mark, not an alphanumeric character.                         *)
(***************************************************************************)
EXTENDS Integers, Sequences, FiniteSets, TLC

VARIABLES
    text,            \* the argument of train
    pc,              \* "start", "walk" (inside the for loop), "trained"
    tokens,          \* train's local `tokens`
    i,               \* number of loop iterations done (the next index)
    unigram,         \* HashMap<String, usize>
    bigram,          \* HashMap<(String, String), usize>
    trigram,         \* HashMap<(String, String, String), usize>
    vocab_count,     \* NGramModel.vocab_count
    unigram_order,   \* the order in which the unigram HashMap iterates
    trigram_order,   \* the order in which the trigram HashMap iterates
    last_call,       \* the suggestion call just made: [op, input], or NoCall
    result           \* the (word, score) pair that call returned

vars == <<text, pc, tokens, i, unigram, bigram, trigram, vocab_count,
          unigram_order, trigram_order, last_call, result>>

model == <<unigram, bigram, trigram, vocab_count>>

----------------------------------------------------------------------------
(* Bounds *)

MaxWords == 5        \* fragments in a training text of Spec
MaxChars == 3        \* characters in a training text of SpecTok
MaxScoreWords == 5   \* words in a training text of SpecScore

----------------------------------------------------------------------------
(* Characters and strings *)

Chars == {"a", "b", "c", "d", "e", "i", "A", "B", "I_DOT", "DOT_ABOVE",
          ".", "!", " ", "TAB"}

\* char::is_whitespace
IsWhitespace(c) == c \in {" ", "TAB"}

\* char::is_alphanumeric
IsAlphanumeric(c) == c \in {"a", "b", "c", "d", "e", "i", "A", "B", "I_DOT"}

\* char::to_lowercase: the lowercase form of one character, a string
LowerChar(c) ==
    CASE c = "A" -> <<"a">>
      [] c = "B" -> <<"b">>
      [] c = "I_DOT" -> <<"i", "DOT_ABOVE">>
      [] OTHER -> <<c>>

RECURSIVE ToLowercase(_)
\* str::to_lowercase
ToLowercase(s) ==
    IF s = <<>> THEN <<>> ELSE LowerChar(Head(s)) \o ToLowercase(Tail(s))

RECURSIVE SkipWhitespace(_)
SkipWhitespace(s) ==
    IF s # <<>> /\ IsWhitespace(Head(s)) THEN SkipWhitespace(Tail(s)) ELSE s

RECURSIVE TakeFragment(_)
TakeFragment(s) ==
    IF s = <<>> \/ IsWhitespace(Head(s)) THEN <<>>
    ELSE <<Head(s)>> \o TakeFragment(Tail(s))

RECURSIVE SplitWhitespace(_)
\* str::split_whitespace: the maximal runs of non-whitespace characters
SplitWhitespace(s) ==
    LET rest == SkipWhitespace(s)
        frag == TakeFragment(rest)
    IN  IF rest = <<>> THEN <<>>
        ELSE <<frag>> \o SplitWhitespace(SubSeq(rest, Len(frag) + 1, Len(rest)))

RECURSIVE TrimStart(_)
TrimStart(s) ==
    IF s # <<>> /\ ~IsAlphanumeric(Head(s)) THEN TrimStart(Tail(s)) ELSE s

RECURSIVE TrimEnd(_)
TrimEnd(s) ==
    IF s # <<>> /\ ~IsAlphanumeric(s[Len(s)])
    THEN TrimEnd(SubSeq(s, 1, Len(s) - 1)) ELSE s

\* t.trim_matches(|c: char| !c.is_alphanumeric())
TrimMatches(s) == TrimEnd(TrimStart(s))

RECURSIVE TokenizeFragmentsKeepEmpty(_)
\* tokenize without its .filter(|t| !t.is_empty())
TokenizeFragmentsKeepEmpty(frags) ==
    IF frags = <<>> THEN <<>>
    ELSE <<ToLowercase(TrimMatches(Head(frags)))>>
         \o TokenizeFragmentsKeepEmpty(Tail(frags))

RECURSIVE TokenizeFragments(_)
TokenizeFragments(frags) ==
    IF frags = <<>> THEN <<>>
    ELSE LET t == ToLowercase(TrimMatches(Head(frags)))
         IN  (IF t = <<>> THEN <<>> ELSE <<t>>) \o TokenizeFragments(Tail(frags))

\* NGramModel::tokenize
tokenize(s) == TokenizeFragments(SplitWhitespace(s))

\* str::starts_with
StartsWith(word, prefix) ==
    /\ Len(prefix) <= Len(word)
    /\ SubSeq(word, 1, Len(prefix)) = prefix

RECURSIVE JoinSpaces(_)
\* the strings of a sequence joined by single spaces
JoinSpaces(ss) ==
    IF ss = <<>> THEN <<>>
    ELSE IF Len(ss) = 1 THEN Head(ss)
    ELSE Head(ss) \o <<" ">> \o JoinSpaces(Tail(ss))

\* the sequences over S of length at most n
SeqUpTo(S, n) == UNION {[1..k -> S] : k \in 0..n}

\* the orders in which a table with key set K can iterate
Orders(K) ==
    {o \in [1..Cardinality(K) -> K] : \A k \in K : \E j \in DOMAIN o : o[j] = k}

----------------------------------------------------------------------------
(* Count tables *)

EmptyMap == <<>>

\* map.get(&k).unwrap_or(&0)
GetOr0(map, k) == IF k \in DOMAIN map THEN map[k] ELSE 0

\* *map.entry(k).or_insert(0) += 1
Bump(map, k) ==
    IF k \in DOMAIN map THEN [map EXCEPT ![k] = @ + 1]
    ELSE [x \in DOMAIN map \cup {k} |-> IF x = k THEN 0 + 1 ELSE map[x]]

----------------------------------------------------------------------------
(* Training *)

NoCall == [op |-> "none", input |-> <<>>]

\* The (String::new(), 0) pair every suggester returns for "no answer"
Sentinel == <<<<>>, 0>>

\* The fragments of a training text of Spec
Frags == {<<"a">>, <<"A", "b", ".">>}

\* The training texts of Spec: up to MaxWords fragments joined by spaces
Texts == {JoinSpaces(fs) : fs \in SeqUpTo(Frags, MaxWords)}

InitWith(T) ==
    /\ text \in T
    /\ pc = "start"
    /\ tokens = <<>>
    /\ i = 0
    /\ unigram = EmptyMap
    /\ bigram = EmptyMap
    /\ trigram = EmptyMap
    /\ vocab_count = 0
    /\ unigram_order = <<>>
    /\ trigram_order = <<>>
    /\ last_call = NoCall
    /\ result = Sentinel

Init == InitWith(Texts)

\* train, lines 16-20: tokenize the text, create the three empty tables
TrainTokenize ==
    /\ pc = "start"
    /\ tokens' = tokenize(text)
    /\ unigram' = EmptyMap
    /\ bigram' = EmptyMap
    /\ trigram' = EmptyMap
    /\ i' = 0
    /\ pc' = "walk"
    /\ UNCHANGED <<text, vocab_count, unigram_order, trigram_order,
                   last_call, result>>

\* the unigram step with insert(token, 1) in place of the increment
UnigramStepInsert(uni, toks, k) ==
    [x \in DOMAIN uni \cup {toks[k + 1]} |->
        IF x = toks[k + 1] THEN 1 ELSE uni[x]]

\* the unigram table after the loop body has run for index k (0-based)
UnigramStep(uni, toks, k) == Bump(uni, toks[k + 1])

\* the bigram step with the guard of the trigram step, i > 1
BigramStepLate(bi, toks, k) ==
    IF k > 1 THEN Bump(bi, <<toks[k], toks[k + 1]>>) ELSE bi

\* the bigram table after the loop body has run for index k
BigramStep(bi, toks, k) ==
    IF k > 0 THEN Bump(bi, <<toks[k], toks[k + 1]>>) ELSE bi

\* the trigram table after the loop body has run for index k
TrigramStep(tri, toks, k) ==
    IF k > 1 THEN Bump(tri, <<toks[k - 1], toks[k], toks[k + 1]>>) ELSE tri

\* train, lines 24-51: one iteration of the for loop, for index i
TrainStep ==
    /\ pc = "walk"
    /\ i < Len(tokens)
    /\ unigram' = UnigramStep(unigram, tokens, i)
    /\ bigram' = BigramStep(bigram, tokens, i)
    /\ trigram' = TrigramStep(trigram, tokens, i)
    /\ i' = i + 1
    /\ UNCHANGED <<text, pc, tokens, vocab_count, unigram_order,
                   trigram_order, last_call, result>>

RECURSIVE SumCounts(_, _)
SumCounts(uni, keys) ==
    IF keys = {} THEN 0
    ELSE LET k == CHOOSE x \in keys : TRUE
         IN  uni[k] + SumCounts(uni, keys \ {k})

\* the number of tokens counted, unigram.values().sum(), in place of the
\* number of keys
VocabCountTokens(uni) == SumCounts(uni, DOMAIN uni)

\* unigram.keys().len()
VocabCount(uni) == Cardinality(DOMAIN uni)

\* train, lines 53-60: the loop is over; count the vocabulary and build the
\* model.  A HashMap iterates in an order that is unspecified but fixed as
\* long as the map is not modified: it is chosen here, once.
TrainFinish ==
    /\ pc = "walk"
    /\ i = Len(tokens)
    /\ vocab_count' = VocabCount(unigram)
    /\ unigram_order' \in Orders(DOMAIN unigram)
    /\ trigram_order' \in Orders(DOMAIN trigram)
    /\ pc' = "trained"
    /\ UNCHANGED <<text, tokens, i, unigram, bigram, trigram, last_call, result>>

----------------------------------------------------------------------------
(* Stable sorting, as Vec::sort_by does it *)

RECURSIVE InsertByCount(_, _)
\* x goes before the first element with a strictly smaller count
InsertByCount(x, sorted) ==
    IF sorted = <<>> THEN <<x>>
    ELSE IF Head(sorted)[2] < x[2] THEN <<x>> \o sorted
    ELSE <<Head(sorted)>> \o InsertByCount(x, Tail(sorted))

RECURSIVE InsertByCountAsc(_, _)
InsertByCountAsc(x, sorted) ==
    IF sorted = <<>> THEN <<x>>
    ELSE IF Head(sorted)[2] > x[2] THEN <<x>> \o sorted
    ELSE <<Head(sorted)>> \o InsertByCountAsc(x, Tail(sorted))

RECURSIVE SortByCountAsc(_)
\* the sort with the comparison the other way round, a.1.cmp(&b.1)
SortByCountAsc(cands) ==
    IF cands = <<>> THEN <<>>
    ELSE InsertByCountAsc(cands[Len(cands)],
                          SortByCountAsc(SubSeq(cands, 1, Len(cands) - 1)))

RECURSIVE SortByCountDesc(_)
\* candidates.sort_by(|a, b| b.1.cmp(&a.1)): stable, by count descending
SortByCountDesc(cands) ==
    IF cands = <<>> THEN <<>>
    ELSE InsertByCount(cands[Len(cands)],
                       SortByCountDesc(SubSeq(cands, 1, Len(cands) - 1)))

\* candidates.first().cloned().unwrap_or((String::new(), 0))
FirstOrSentinel(cands) == IF cands = <<>> THEN Sentinel ELSE Head(cands)

----------------------------------------------------------------------------
(* suggest_unigram *)

\* the prefix taken from the tokenizer, as the other two suggesters take
\* their words: Self::tokenize(input).last()
UnigramPrefixTokenized(input) ==
    LET toks == tokenize(input)
    IN  IF toks = <<>> THEN <<>> ELSE toks[Len(toks)]

\* input.to_lowercase().split_whitespace().last().unwrap_or("")
UnigramPrefix(input) ==
    LET frags == SplitWhitespace(ToLowercase(input))
    IN  IF frags = <<>> THEN <<>> ELSE frags[Len(frags)]

\* the (word, count) pairs of the unigram table whose word starts with
\* prefix, in the table's iteration order
UnigramCandidates(uni, order, prefix) ==
    SelectSeq([j \in DOMAIN order |-> <<order[j], uni[order[j]]>>],
              LAMBDA c : StartsWith(c[1], prefix))

SuggestUnigramResult(uni, order, input) ==
    FirstOrSentinel(SortByCountDesc(
        UnigramCandidates(uni, order, UnigramPrefix(input))))

----------------------------------------------------------------------------
(* suggest_trigram *)

\* the (third word, count) pairs of the trigram entries whose first word is
\* previous and whose second word is current, in iteration order
TrigramCandidates(tri, order, previous, current) ==
    LET hits == SelectSeq(order, LAMBDA k : k[1] = previous /\ k[2] = current)
    IN  [j \in DOMAIN hits |-> <<hits[j][3], tri[hits[j]]>>]

SuggestTrigramResult(tri, order, input) ==
    LET tokenized_input == tokenize(input)
        n == Len(tokenized_input)
    IN  IF n < 2 THEN Sentinel
        ELSE FirstOrSentinel(SortByCountDesc(
                 TrigramCandidates(tri, order, tokenized_input[n - 1],
                                   tokenized_input[n])))

----------------------------------------------------------------------------
(* Natural numbers of any size: the limbs of a number in base 2^15, least  *)
(* significant first, with no leading zero limb; zero is << >>.  TLC's     *)
(* integers have 32 bits and an f64 significand has 53.                    *)

LimbBase == 2^15

RECURSIVE BigNorm(_)
BigNorm(a) ==
    IF a # <<>> /\ a[Len(a)] = 0 THEN BigNorm(SubSeq(a, 1, Len(a) - 1)) ELSE a

RECURSIVE BigFromInt(_)
BigFromInt(n) ==
    IF n = 0 THEN <<>> ELSE <<n % LimbBase>> \o BigFromInt(n \div LimbBase)

RECURSIVE BigToInt(_)
BigToInt(a) ==
    IF a = <<>> THEN 0 ELSE Head(a) + LimbBase * BigToInt(Tail(a))

RECURSIVE BigAddC(_, _, _)
BigAddC(a, b, carry) ==
    IF a = <<>> /\ b = <<>> THEN (IF carry = 0 THEN <<>> ELSE <<carry>>)
    ELSE LET x == (IF a = <<>> THEN 0 ELSE Head(a))
                  + (IF b = <<>> THEN 0 ELSE Head(b)) + carry
         IN  <<x % LimbBase>>
             \o BigAddC(IF a = <<>> THEN <<>> ELSE Tail(a),
                        IF b = <<>> THEN <<>> ELSE Tail(b), x \div LimbBase)

BigAdd(a, b) == BigAddC(a, b, 0)

RECURSIVE BigMulSmallC(_, _, _)
\* a * k + carry, for 0 <= k <= 2^15
BigMulSmallC(a, k, carry) ==
    IF a = <<>> THEN BigFromInt(carry)
    ELSE LET x == Head(a) * k + carry
         IN  <<x % LimbBase>> \o BigMulSmallC(Tail(a), k, x \div LimbBase)

BigMulSmall(a, k) == BigNorm(BigMulSmallC(a, k, 0))

RECURSIVE BigMul(_, _)
BigMul(a, b) ==
    IF a = <<>> \/ b = <<>> THEN <<>>
    ELSE BigNorm(BigAdd(BigMulSmall(a, Head(b)), <<0>> \o BigMul(a, Tail(b))))

RECURSIVE BigDivModSmall(_, _)
\* <<a \div d, a % d>>, for 0 < d <= 2^15; the quotient is not normalised
BigDivModSmall(a, d) ==
    IF a = <<>> THEN <<<<>>, 0>>
    ELSE LET hi == BigDivModSmall(Tail(a), d)
             cur == hi[2] * LimbBase + Head(a)
         IN  <<<<cur \div d>> \o hi[1], cur % d>>

\* a * 2^n
BigShl(a, n) ==
    IF a = <<>> THEN <<>>
    ELSE [j \in 1..(n \div 15) |-> 0] \o BigMulSmall(a, 2^(n % 15))

\* a \div 2^n
BigShr(a, n) ==
    BigNorm(BigDivModSmall(SubSeq(a, (n \div 15) + 1, Len(a)), 2^(n % 15))[1])

\* a % 2^n
BigLow(a, n) ==
    LET k == n \div 15
    IN  IF Len(a) <= k THEN a
        ELSE BigNorm(SubSeq(a, 1, k) \o <<a[k + 1] % (2^(n % 15))>>)

RECURSIVE BitLen(_)
BitLen(x) == IF x = 0 THEN 0 ELSE 1 + BitLen(x \div 2)

\* the number of bits of a
BigBitLen(a) == IF a = <<>> THEN 0 ELSE (Len(a) - 1) * 15 + BitLen(a[Len(a)])

RECURSIVE BigCmpFrom(_, _, _)
BigCmpFrom(a, b, k) ==
    IF k = 0 THEN 0
    ELSE IF a[k] < b[k] THEN -1
    ELSE IF a[k] > b[k] THEN 1
    ELSE BigCmpFrom(a, b, k - 1)

\* -1, 0 or 1 as a < b, a = b or a > b
BigCmp(a, b) ==
    IF Len(a) < Len(b) THEN -1
    ELSE IF Len(a) > Len(b) THEN 1
    ELSE BigCmpFrom(a, b, Len(a))

BigIsOdd(a) == a # <<>> /\ a[1] % 2 = 1

RECURSIVE TrailingZeros(_)
\* the number of zero bits at the low end of x > 0
TrailingZeros(x) == IF x % 2 = 1 THEN 0 ELSE 1 + TrailingZeros(x \div 2)

RECURSIVE BigTrailingZeros(_)
\* the number of zero bits at the low end of a > 0
BigTrailingZeros(a) ==
    IF Head(a) = 0 THEN 15 + BigTrailingZeros(Tail(a)) ELSE TrailingZeros(Head(a))

----------------------------------------------------------------------------
(* f64: the finite values >= 0 of IEEE 754 binary64, [m, e] standing for   *)
(* m * 2^e where m is 0 (and e is 0) or has exactly MantissaBits bits.     *)
(* Every operation is the exact result rounded to nearest, ties to even.   *)
(* The magnitudes here are far from overflow and from the subnormals.      *)

MantissaBits == 53

F64Zero == [m |-> <<>>, e |-> 0]

\* the f64 nearest to n * 2^e
F64Round(n, e) ==
    LET len == BigBitLen(n)
        s == len - MantissaBits
    IN  IF n = <<>> THEN F64Zero
        ELSE IF s <= 0 THEN [m |-> BigShl(n, -s), e |-> e + s]
        ELSE LET q == BigShr(n, s)
                 c == BigCmp(BigShl(BigLow(n, s), 1), BigShl(<<1>>, s))
                 up == c > 0 \/ (c = 0 /\ BigIsOdd(q))
                 r == IF up THEN BigAdd(q, <<1>>) ELSE q
             IN  IF BigBitLen(r) > MantissaBits
                 THEN [m |-> BigShr(r, 1), e |-> e + s + 1]
                 ELSE [m |-> r, e |-> e + s]

\* `n as f64`
F64FromInt(n) == F64Round(BigFromInt(n), 0)

\* x + y
F64Add(x, y) ==
    LET e == IF x.e < y.e THEN x.e ELSE y.e
    IN  F64Round(BigAdd(BigShl(x.m, x.e - e), BigShl(y.m, y.e - e)), e)

\* x * y
F64Mul(x, y) == F64Round(BigMul(x.m, y.m), x.e + y.e)

\* x / y, for a divisor y > 0 whose significand, without its trailing zero
\* bits, is below 2^15 (the divisors here are small whole numbers)
F64Div(x, y) ==
    LET tz == BigTrailingZeros(y.m)
        d == BigToInt(BigShr(y.m, tz))
        k == 3 + BitLen(d)
        qr == BigDivModSmall(BigShl(x.m, k), d)
        sticky == IF qr[2] = 0 THEN 0 ELSE 1
    IN  IF x.m = <<>> THEN F64Zero
        ELSE F64Round(BigAddC(BigShl(BigNorm(qr[1]), 1), <<>>, sticky),
                      x.e - k - (y.e + tz) - 1)

\* a.partial_cmp(&b): -1, 0 or 1
F64Cmp(x, y) ==
    LET e == IF x.e < y.e THEN x.e ELSE y.e
    IN  BigCmp(BigShl(x.m, x.e - e), BigShl(y.m, y.e - e))

\* `x as usize`: the whole part
F64ToUsize(x) ==
    IF x.e >= 0 THEN BigToInt(BigShl(x.m, x.e)) ELSE BigToInt(BigShr(x.m, -x.e))

----------------------------------------------------------------------------
(* smooth_with_laplace and suggest_bigram *)

\* one pass of the loop of smooth_with_laplace, for prev_word
SmoothedProbability(uni, bi, vocab, prev_word, current) ==
    LET bigram_count == GetOr0(bi, <<prev_word, current>>)
        prev_word_count == GetOr0(uni, prev_word)
    IN  F64Div(F64Add(F64FromInt(bigram_count), F64FromInt(1)),
               F64Add(F64FromInt(prev_word_count), F64FromInt(vocab)))

RECURSIVE SmoothUpTo(_, _, _, _, _, _)
\* total_probability after the first n words of the iteration order
SmoothUpTo(uni, bi, vocab, order, current, n) ==
    IF n = 0 THEN F64Zero
    ELSE F64Add(SmoothUpTo(uni, bi, vocab, order, current, n - 1),
                SmoothedProbability(uni, bi, vocab, order[n], current))

\* NGramModel::smooth_with_laplace
smooth_with_laplace(uni, bi, vocab, order, current) ==
    SmoothUpTo(uni, bi, vocab, order, current, Len(order))

RECURSIVE InsertByProb(_, _)
\* x goes before the first element with a strictly smaller probability
InsertByProb(x, sorted) ==
    IF sorted = <<>> THEN <<x>>
    ELSE IF F64Cmp(Head(sorted)[2], x[2]) < 0 THEN <<x>> \o sorted
    ELSE <<Head(sorted)>> \o InsertByProb(x, Tail(sorted))

RECURSIVE SortByProbDesc(_)
\* candidates.sort_by(|a, b| b.1.partial_cmp(&a.1)...): stable, descending
SortByProbDesc(cands) ==
    IF cands = <<>> THEN <<>>
    ELSE InsertByProb(cands[Len(cands)],
                      SortByProbDesc(SubSeq(cands, 1, Len(cands) - 1)))

\* the (word, probability) pair of every vocabulary word, in iteration order
BigramCandidates(uni, bi, vocab, order) ==
    [j \in DOMAIN order |->
        <<order[j], smooth_with_laplace(uni, bi, vocab, order, order[j])>>]

\* (word.clone(), (prob * 1000.0) as usize)
ScaleCandidate(c) == <<c[1], F64ToUsize(F64Mul(c[2], F64FromInt(1000)))>>

\* suggest_bigram scoring each word by its smoothed probability after
\* current_word alone, P(word | current_word)
SuggestBigramConditioned(uni, bi, vocab, order, input) ==
    LET tokenized_input == tokenize(input)
        current_word == tokenized_input[Len(tokenized_input)]
        sorted == SortByProbDesc(
            [j \in DOMAIN order |->
                <<order[j],
                  SmoothedProbability(uni, bi, vocab, current_word, order[j])>>])
    IN  IF Len(tokenized_input) < 1 THEN Sentinel
        ELSE IF sorted = <<>> THEN Sentinel
        ELSE ScaleCandidate(Head(sorted))

SuggestBigramResult(uni, bi, vocab, order, input) ==
    LET tokenized_input == tokenize(input)
        current_word == tokenized_input[Len(tokenized_input)]
        sorted == SortByProbDesc(BigramCandidates(uni, bi, vocab, order))
    IN  IF Len(tokenized_input) < 1 THEN Sentinel
        ELSE IF sorted = <<>> THEN Sentinel
        ELSE ScaleCandidate(Head(sorted))

----------------------------------------------------------------------------
(* The suggestion calls on the trained model *)

\* The inputs of the suggestion calls
Inputs == {<<>>, <<"!">>, <<"A", "b">>, <<"a", ".", " ", "A">>,
           <<"A", " ", "a", "b", "!">>}

SuggestUnigram ==
    /\ pc = "trained"
    /\ last_call = NoCall
    /\ \E input \in Inputs :
          /\ last_call' = [op |-> "unigram", input |-> input]
          /\ result' = SuggestUnigramResult(unigram, unigram_order, input)
    /\ UNCHANGED <<text, pc, tokens, i, unigram, bigram, trigram, vocab_count,
                   unigram_order, trigram_order>>

\* suggest_bigram with a smoother that looks its pairs up with
\* entry(..).or_insert(0), which adds every pair it asks for to the table
SuggestBigramInserting ==
    /\ pc = "trained"
    /\ last_call = NoCall
    /\ \E input \in Inputs :
          /\ last_call' = [op |-> "bigram", input |-> input]
          /\ result' = SuggestBigramResult(unigram, bigram, vocab_count,
                                           unigram_order, input)
          /\ bigram' = IF tokenize(input) = <<>> THEN bigram
                       ELSE [p \in DOMAIN bigram
                                   \cup ((DOMAIN unigram) \X (DOMAIN unigram)) |->
                               GetOr0(bigram, p)]
    /\ UNCHANGED <<text, pc, tokens, i, unigram, trigram, vocab_count,
                   unigram_order, trigram_order>>

SuggestBigram ==
    /\ pc = "trained"
    /\ last_call = NoCall
    /\ \E input \in Inputs :
          /\ last_call' = [op |-> "bigram", input |-> input]
          /\ result' = SuggestBigramResult(unigram, bigram, vocab_count,
                                           unigram_order, input)
    /\ UNCHANGED <<text, pc, tokens, i, unigram, bigram, trigram, vocab_count,
                   unigram_order, trigram_order>>

SuggestTrigram ==
    /\ pc = "trained"
    /\ last_call = NoCall
    /\ \E input \in Inputs :
          /\ last_call' = [op |-> "trigram", input |-> input]
          /\ result' = SuggestTrigramResult(trigram, trigram_order, input)
    /\ UNCHANGED <<text, pc, tokens, i, unigram, bigram, trigram, vocab_count,
                   unigram_order, trigram_order>>

\* The caller has used the pair a suggester returned; the model is ready for
\* the next call.
Return ==
    /\ pc = "trained"
    /\ last_call # NoCall
    /\ last_call' = NoCall
    /\ result' = Sentinel
    /\ UNCHANGED <<text, pc, tokens, i, unigram, bigram, trigram, vocab_count,
                   unigram_order, trigram_order>>

Next ==
    \/ TrainTokenize
    \/ TrainStep
    \/ TrainFinish
    \/ SuggestUnigram
    \/ SuggestBigram
    \/ SuggestTrigram
    \/ Return

Spec == Init /\ [][Next]_vars

\* The characters of a training text of SpecTok
RawChars == {"a", "b", "A", "I_DOT", "!", " "}

\* Training texts that are any string of up to MaxChars characters
RawTexts == SeqUpTo(RawChars, MaxChars)

InitTok == InitWith(RawTexts)

SpecTok == InitTok /\ [][Next]_vars

\* The words of a training text of SpecScore
ScoreWords == <<<<"a">>, <<"b">>, <<"c">>, <<"d">>, <<"e">>>>

\* Training texts of up to MaxScoreWords words in which the k-th new word is
\* ScoreWords[k] (one text for each pattern of repetition)
ScoreTexts ==
    {JoinSpaces([j \in DOMAIN p |-> ScoreWords[p[j]]]) :
        p \in {q \in SeqUpTo(DOMAIN ScoreWords, MaxScoreWords) :
                 \A j \in DOMAIN q :
                    q[j] = 1 \/ \E h \in 1..(j - 1) : q[h] = q[j] - 1}}

InitScore == InitWith(ScoreTexts)

SpecScore == InitScore /\ [][Next]_vars

----------------------------------------------------------------------------
(* Properties of training *)

\* the number of positions of the token sequence that hold w
Occ1(w) == Cardinality({k \in 1..Len(tokens) : tokens[k] = w})

\* the number of positions k >= 2 where a, b end
Occ2(a, b) ==
    Cardinality({k \in 2..Len(tokens) : tokens[k - 1] = a /\ tokens[k] = b})

\* the number of positions k >= 3 where a, b, c end
Occ3(a, b, c) ==
    Cardinality({k \in 3..Len(tokens) :
                    tokens[k - 2] = a /\ tokens[k - 1] = b /\ tokens[k] = c})

\* C1: the tables of the finished model hold exactly the occurrence counts
\* of the token sequence: a key for each word, pair and triple that occurs,
\* with its number of occurrences, and no other key (a one-token text gives
\* one unigram entry and no bigram or trigram entry).
C1_TrainCounts ==
    pc = "trained" =>
        /\ DOMAIN unigram = {tokens[k] : k \in 1..Len(tokens)}
        /\ \A w \in DOMAIN unigram : unigram[w] = Occ1(w)
        /\ DOMAIN bigram = {<<tokens[k - 1], tokens[k]>> : k \in 2..Len(tokens)}
        /\ \A p \in DOMAIN bigram : bigram[p] = Occ2(p[1], p[2])
        /\ DOMAIN trigram =
              {<<tokens[k - 2], tokens[k - 1], tokens[k]>> : k \in 3..Len(tokens)}
        /\ \A t \in DOMAIN trigram : trigram[t] = Occ3(t[1], t[2], t[3])
        /\ Len(tokens) = 1 =>
              /\ Cardinality(DOMAIN unigram) = 1
              /\ DOMAIN bigram = {}
              /\ DOMAIN trigram = {}

\* a finished model with a repeated trigram, two different bigrams and two
\* different words
C1_Witness ==
    /\ pc = "trained"
    /\ \E t \in DOMAIN trigram : trigram[t] >= 2
    /\ Cardinality(DOMAIN bigram) >= 2
    /\ Cardinality(DOMAIN unigram) >= 2

\* C2: after every step of the training walk and in the finished model,
\* every bigram key (a, b) has a count of at most unigram[a] and at most
\* unigram[b] (a word that is no unigram key counting 0), also when a = b.
C2_BigramBound ==
    \A p \in DOMAIN bigram :
        /\ bigram[p] <= GetOr0(unigram, p[1])
        /\ bigram[p] <= GetOr0(unigram, p[2])

\* in the middle of the walk, a pair (a, a) seen twice and a pair (a, b) with
\* a # b
C2_Witness ==
    /\ pc = "walk"
    /\ i < Len(tokens)
    /\ \E p \in DOMAIN bigram : p[1] = p[2] /\ bigram[p] >= 2
    /\ \E p \in DOMAIN bigram : p[1] # p[2]

\* C3: tokenizing the tokens of a text joined by single spaces gives the
\* same tokens again.
C3_TokenizeIdempotent ==
    pc # "start" => tokenize(JoinSpaces(tokens)) = tokens

\* C8: in the finished model, before and after any suggestion calls,
\* vocab_count is the number of distinct keys of the unigram table.
C8_VocabCount ==
    pc = "trained" => vocab_count = Cardinality(DOMAIN unigram)

\* a model of two words trained on more than two tokens, after a call
C8_Witness ==
    /\ pc = "trained"
    /\ last_call # NoCall
    /\ vocab_count = 2
    /\ Len(tokens) > 2

----------------------------------------------------------------------------
(* Properties of the suggesters *)

\* the last maximal run of non-whitespace characters of s, or the empty
\* string when s has none
LastFragment(s) ==
    LET ends == {k \in 1..Len(s) : ~IsWhitespace(s[k])}
        last == CHOOSE k \in ends : \A h \in ends : h <= k
        first == CHOOSE j \in 1..last :
                    /\ \A h \in j..last : ~IsWhitespace(s[h])
                    /\ j = 1 \/ IsWhitespace(s[j - 1])
    IN  IF ends = {} THEN <<>> ELSE SubSeq(s, first, last)

\* word begins with prefix
HasPrefix(word, prefix) ==
    /\ Len(prefix) <= Len(word)
    /\ \A k \in 1..Len(prefix) : word[k] = prefix[k]

\* the vocabulary words that start with the prefix of a suggest_unigram call
Matches(input) ==
    {w \in DOMAIN unigram : HasPrefix(w, LastFragment(ToLowercase(input)))}

\* C4: suggest_unigram, with the last whitespace-delimited fragment of the
\* lowercased input as prefix, returns a vocabulary word that starts with
\* the prefix, with its count, such that no vocabulary word starting with
\* the prefix has a larger count; it returns ("", 0) exactly when no
\* vocabulary word starts with the prefix; with an empty prefix the word has
\* the highest count of the vocabulary.
C4_SuggestUnigram ==
    last_call.op = "unigram" =>
        LET m == Matches(last_call.input)
        IN  /\ (result = Sentinel) <=> (m = {})
            /\ m # {} =>
                  /\ result[1] \in m
                  /\ result[2] = unigram[result[1]]
                  /\ \A w \in m : unigram[w] <= result[2]
            /\ (LastFragment(ToLowercase(last_call.input)) = <<>>
                  /\ DOMAIN unigram # {}) =>
                  /\ result[1] \in DOMAIN unigram
                  /\ \A w \in DOMAIN unigram : unigram[w] <= result[2]

\* a call whose prefix some words start with and others do not, where a
\* word that does not start with it has a larger count than the word returned
C4_Witness ==
    /\ last_call.op = "unigram"
    /\ Matches(last_call.input) # {}
    /\ \E w \in DOMAIN unigram \ Matches(last_call.input) :
          unigram[w] > result[2]

\* the trigram keys whose first two words are the last two tokens of input
TrigramHits(input) ==
    LET t == tokenize(input)
    IN  {k \in DOMAIN trigram : k[1] = t[Len(t) - 1] /\ k[2] = t[Len(t)]}

NoAlphanumeric(s) == \A k \in 1..Len(s) : ~IsAlphanumeric(s[k])

\* C6: a model trained on a text with no token has three empty tables and
\* vocab_count 0, and every suggester returns ("", 0) for every input.
C6_EmptyModel ==
    (pc = "trained" /\ NoAlphanumeric(text)) =>
        /\ DOMAIN unigram = {}
        /\ DOMAIN bigram = {}
        /\ DOMAIN trigram = {}
        /\ vocab_count = 0
        /\ result = Sentinel

\* a model trained on a non-empty text with no token, after suggest_bigram
\* was called with an input that has a token
C6_Witness ==
    /\ pc = "trained"
    /\ text # <<>>
    /\ NoAlphanumeric(text)
    /\ last_call.op = "bigram"
    /\ tokenize(last_call.input) # <<>>

\* C7: once the model is built, no step changes the unigram, bigram and
\* trigram tables or vocab_count.
C7_ModelReadOnly == [][pc = "trained" => model' = model]_vars

\* a model with all three tables non-empty, after a suggest_bigram call
\* that returned a word
C7_Witness ==
    /\ pc = "trained"
    /\ last_call.op = "bigram"
    /\ result # Sentinel
    /\ DOMAIN trigram # {}

RECURSIVE ProdDen(_)
\* the product of unigram[w] + vocab_count over the words w of ws
ProdDen(ws) ==
    IF ws = {} THEN 1
    ELSE LET w == CHOOSE x \in ws : TRUE
         IN  (unigram[w] + vocab_count) * ProdDen(ws \ {w})

RECURSIVE ScoreNumOver(_, _)
ScoreNumOver(c, ws) ==
    IF ws = {} THEN 0
    ELSE LET w == CHOOSE x \in ws : TRUE
         IN  (GetOr0(bigram, <<w, c>>) + 1)
                * (ProdDen(DOMAIN unigram) \div (unigram[w] + vocab_count))
             + ScoreNumOver(c, ws \ {w})

\* S(c) * ProdDen(DOMAIN unigram), a whole number: S(c) is the sum over the
\* vocabulary words w of (bigram[(w, c)] + 1) / (unigram[w] + vocab_count)
ScoreNum(c) == ScoreNumOver(c, DOMAIN unigram)

\* C9: for a non-empty vocabulary and an input with a token, suggest_bigram
\* returns a vocabulary word c with S(c) >= S(d) for every vocabulary word
\* d, together with 1000 * S(c) truncated to an integer.
C9_SuggestBigram ==
    (last_call.op = "bigram" /\ tokenize(last_call.input) # <<>>
        /\ DOMAIN unigram # {}) =>
        /\ result[1] \in DOMAIN unigram
        /\ \A d \in DOMAIN unigram : ScoreNum(result[1]) >= ScoreNum(d)
        /\ result[2] = (1000 * ScoreNum(result[1])) \div ProdDen(DOMAIN unigram)

\* What the code does keep of C9: the word has the highest S, and the
\* integer is 1000 * S(c) truncated, or one less.
BigramScoreWithinOne ==
    (last_call.op = "bigram" /\ tokenize(last_call.input) # <<>>
        /\ DOMAIN unigram # {}) =>
        LET exact == (1000 * ScoreNum(result[1])) \div ProdDen(DOMAIN unigram)
        IN  /\ result[1] \in DOMAIN unigram
            /\ \A d \in DOMAIN unigram : ScoreNum(result[1]) >= ScoreNum(d)
            /\ result[2] \in {exact - 1, exact}

\* an input that has a token, to compare the others with
RefInput == CHOOSE input \in Inputs : tokenize(input) # <<>>

LastToken(input) == tokenize(input)[Len(tokenize(input))]

====
